---- MODULE Spec2Model ----
(***************************************************************************)
(* A model of the `generate` command group of dagster-components:          *)
(*   cli/generate.py  - the four click commands and their precondition     *)
(*                      checks                                             *)
(*   generate.py      - the four generators                                *)
(* The filesystem is a function from paths (sequences of names) to         *)
(* contents.  Each command is one process invocation started in a working  *)
(* directory; generate_component_instance is split at the call of the      *)
(* component type's generate_files hook, which is foreign code.            *)
(***************************************************************************)
EXTENDS Integers, Sequences, FiniteSets, TLC

VARIABLES fs, cwd, pc, cmd, exit, msg, log, frame, ncmds

vars == <<fs, cwd, pc, cmd, exit, msg, log, frame, ncmds>>

(* ---------------------------------------------------------------------- *)
(* Bounds and input universes                                             *)
(* ---------------------------------------------------------------------- *)

\* number of command invocations in one behaviour
MaxCmds == 2

DeployNames == {"dep", "x"}
CodeLocNames == {"a", "b"}
TypeNames == {"t1", "t2", "bcli", "bdict"}
InstNames == {"i1", "i2"}

\* value of --json-params; NoJson stands for the option being absent
NoJson == "<absent>"
JsonInputs == {NoJson, "{\"k\": 1}", "{}", "{\"k\": \"x\"}", "{\"k\":"}

ExtraArgInputs == {<<>>, <<"--zz">>}

\* what a generate_files hook may return
HookReturns == {"None", "v1", "v2"}

\* directories a command may be started in
CwdSet ==
    { <<>>,
      <<"dep">>,
      <<"dep", "code_locations", "a">> }

(* ---------------------------------------------------------------------- *)
(* Filesystem                                                             *)
(* ---------------------------------------------------------------------- *)

Dir == <<"dir">>
UserFile == <<"user">>
TypeFile(name) == <<"py", name>>
GenFile(arg) == <<"gen", arg>>
YamlFile(type, params) == <<"yaml", type, params>>

Exists(f, p) == p \in DOMAIN f

IsDir(f, p) == Exists(f, p) /\ f[p] = Dir

Join(p, name) == Append(p, name)

Prefixes(p) == { SubSeq(p, 1, n) : n \in 0..Len(p) }

WriteFile(f, p, c) == [q \in DOMAIN f \cup {p} |-> IF q = p THEN c ELSE f[q]]

PyName(name) ==
    CASE name = "t1" -> "t1.py"
      [] name = "t2" -> "t2.py"
      [] name = "bcli" -> "bcli.py"
      [] name = "bdict" -> "bdict.py"

DeploymentTemplate == [r \in {<<"code_locations">>} |-> Dir]

CodeLocationTemplate == [r \in {<<"lib">>, <<"components">>} |-> Dir]

ComponentTypeTemplate(name) == [r \in {<<PyName(name)>>} |-> TypeFile(name)]

ComponentInstanceTemplate == [r \in {} |-> Dir]

\* generate_project: make the destination directory when it is missing and
\* write every entry of the template below it
generate_project(f, path, template) ==
    LET targets == { path \o r : r \in DOMAIN template }
        rel(q) == CHOOSE r \in DOMAIN template : path \o r = q
    IN [q \in DOMAIN f \cup {path} \cup targets |->
            IF q \in targets THEN template[rel(q)]
            ELSE IF q \in DOMAIN f THEN f[q]
            ELSE Dir]

(* ---------------------------------------------------------------------- *)
(* Project contexts                                                       *)
(* ---------------------------------------------------------------------- *)

Longest(S) == CHOOSE p \in S : \A q \in S : Len(q) <= Len(p)

_is_deployment_root(f, p) == IsDir(f, Join(p, "code_locations"))

_is_code_location_root(f, p) ==
    /\ Len(p) >= 2
    /\ p[Len(p) - 1] = "code_locations"
    /\ IsDir(f, p)

\* walk from path upward to the nearest deployment root
DeploymentRoots(f, path) == { q \in Prefixes(path) : _is_deployment_root(f, q) }

is_inside_deployment_project(f, path) == DeploymentRoots(f, path) # {}

CodeLocationRoots(f, path) == { q \in Prefixes(path) : _is_code_location_root(f, q) }

is_inside_code_location_project(f, path) == CodeLocationRoots(f, path) # {}

DeploymentProjectContext(f, path) ==
    LET root == Longest(DeploymentRoots(f, path))
    IN [root_path |-> root,
        code_location_root_path |-> Join(root, "code_locations")]

has_code_location(f, context, name) ==
    Exists(f, Join(context.code_location_root_path, name))

\* the component types the process starts with (__component_registry__)
BuiltinTypes == {"bcli", "bdict"}

\* the keys that the modules of the component-types directory register: a
\* module generated for `name` registers `name`, any other file registers
\* nothing
RegisteredIn(f, types_root) ==
    { k \in TypeNames :
        /\ Exists(f, Join(types_root, PyName(k)))
        /\ f[Join(types_root, PyName(k))] = TypeFile(k) }

ComponentRegistry(f, types_root) == BuiltinTypes \cup RegisteredIn(f, types_root)

CodeLocationProjectContext(f, path) ==
    LET root == Longest(CodeLocationRoots(f, path))
    IN [root_path |-> root,
        component_types_root_path |-> Join(root, "lib"),
        component_instances_root_path |-> Join(root, "components"),
        registry |-> ComponentRegistry(f, Join(root, "lib"))]

has_component_type(context, name) == name \in context.registry

has_component_instance(f, context, name) ==
    Exists(f, Join(context.component_instances_root_path, name))

\* the params schema each component type declares: "none" is no schema,
\* "model" a model with the required integer field k, "model_cli" the same
\* with a `cli` parser attached, "dict" a plain mapping
generate_params_schema(key) ==
    CASE key = "t1" -> "none"
      [] key = "t2" -> "model"
      [] key = "bcli" -> "model_cli"
      [] key = "bdict" -> "dict"

get_component_type(context, name) ==
    [name |-> name, generate_params_schema |-> generate_params_schema(name)]

get_component_name(component_type) == component_type.name

(* ---------------------------------------------------------------------- *)
(* Generate params                                                        *)
(* ---------------------------------------------------------------------- *)

Err == "ERR"

\* JSON text to the value it denotes
ParseJson(s) ==
    CASE s = "{\"k\": 1}" -> "v1"
      [] s = "{}" -> "empty"
      [] s = "{\"k\": \"x\"}" -> "vx"
      [] OTHER -> Err

Conforms(schema, v) ==
    CASE schema = "dict" -> v \in {"v1", "empty", "vx"}
      [] OTHER -> v = "v1"

validate_json(schema, s) ==
    LET v == ParseJson(s)
    IN IF v = Err \/ ~Conforms(schema, v) THEN Err ELSE v

\* the schema's click parser applied to the extra arguments
ParseCli(args) ==
    CASE args = <<>> -> "vdef"
      [] OTHER -> Err

Truthy(v) == v \notin {"None", "empty"}

\* ResolveGenerateParams that parses the JSON text without validating it
\* against the schema
ResolveGenerateParams_unvalidated(component_type_cls, json_params, extra_args) ==
    LET schema == component_type_cls.generate_params_schema
    IN IF schema = "none" THEN [via |-> "none", params |-> "None"]
       ELSE IF json_params # NoJson
            THEN [via |-> "json", params |-> ParseJson(json_params)]
       ELSE IF schema = "model_cli"
            THEN [via |-> "cli", params |-> ParseCli(extra_args)]
       ELSE [via |-> "none", params |-> "None"]

\* ResolveGenerateParams that tries the schema's cli parser before
\* --json-params
ResolveGenerateParams_cli_first(component_type_cls, json_params, extra_args) ==
    LET schema == component_type_cls.generate_params_schema
    IN IF schema = "none" THEN [via |-> "none", params |-> "None"]
       ELSE IF schema = "model_cli"
            THEN [via |-> "cli", params |-> ParseCli(extra_args)]
       ELSE IF json_params # NoJson
            THEN [via |-> "json", params |-> validate_json(schema, json_params)]
       ELSE [via |-> "none", params |-> "None"]

\* lines 117-129
ResolveGenerateParams(component_type_cls, json_params, extra_args) ==
    LET schema == component_type_cls.generate_params_schema
        cli == IF schema = "model_cli" THEN "cli" ELSE "None"
    IN IF schema = "none" THEN [via |-> "none", params |-> "None"]
       ELSE IF json_params # NoJson
            THEN [via |-> "json", params |-> validate_json(schema, json_params)]
       ELSE IF cli # "None"
            THEN [via |-> "cli", params |-> ParseCli(extra_args)]
       ELSE [via |-> "none", params |-> "None"]

(* ---------------------------------------------------------------------- *)
(* Generators (generate.py)                                               *)
(* ---------------------------------------------------------------------- *)

Event(op, path, arg) == [op |-> op, path |-> path, arg |-> arg]

generate_deployment(f, wd, path) ==
    generate_project(f, Join(wd, path), DeploymentTemplate)

generate_code_location(f, path) ==
    generate_project(f, path, CodeLocationTemplate)

generate_component_type(f, root_path, name) ==
    generate_project(f, root_path, ComponentTypeTemplate(name))

NoFrame ==
    [root |-> <<>>, key |-> "", params |-> "None", old_cwd |-> <<>>, ret |-> "None"]

\* what generate_files is called with: the params when they are truthy,
\* nothing otherwise
HookArg(generate_params) ==
    IF Truthy(generate_params) THEN generate_params ELSE "<noarg>"

\* the working directory while generate_files runs (pushd)
HookCwd(fr) == fr.root

\* os.chdir in place of `with pushd`: nothing is restored
RestoredCwd_chdir(fr) == fr.root

\* the working directory once the `with pushd` block is left
RestoredCwd(fr) == fr.old_cwd

\* generate_component_instance writing component.yaml before it calls the
\* generate_files hook
generate_component_instance_eager(root_path, name, component_type, generate_params, prelog) ==
    LET component_instance_root_path == Join(root_path, name)
        component_registry_key == get_component_name(component_type)
    IN /\ fs' = WriteFile(generate_project(fs, component_instance_root_path,
                                           ComponentInstanceTemplate),
                          Join(component_instance_root_path, "component.yaml"),
                          YamlFile(component_registry_key, "empty"))
       /\ frame' = [root |-> component_instance_root_path,
                    key |-> component_registry_key,
                    params |-> generate_params,
                    old_cwd |-> cmd'.cwd,
                    ret |-> "None"]
       /\ cwd' = HookCwd(frame')
       /\ log' = prelog \o
                 << Event("generate_project", component_instance_root_path, name),
                    Event("generate_files", component_instance_root_path,
                          HookArg(generate_params)) >>
       /\ pc' = "hook"
       /\ exit' = -1
       /\ msg' = ""

\* generate_component_instance up to the call of the generate_files hook:
\* copy the template, enter the instance directory, call the hook
generate_component_instance(root_path, name, component_type, generate_params, prelog) ==
    LET component_instance_root_path == Join(root_path, name)
        component_registry_key == get_component_name(component_type)
    IN /\ fs' = generate_project(fs, component_instance_root_path,
                                 ComponentInstanceTemplate)
       /\ frame' = [root |-> component_instance_root_path,
                    key |-> component_registry_key,
                    params |-> generate_params,
                    old_cwd |-> cmd'.cwd,
                    ret |-> "None"]
       /\ cwd' = HookCwd(frame')
       /\ log' = prelog \o
                 << Event("generate_project", component_instance_root_path, name),
                    Event("generate_files", component_instance_root_path,
                          HookArg(generate_params)) >>
       /\ pc' = "hook"
       /\ exit' = -1
       /\ msg' = ""

\* the hook returns r, having written a file into its working directory
HookReturn(r) ==
    /\ pc = "hook"
    /\ fs' = WriteFile(fs, Join(cwd, "gen"), GenFile(log[Len(log)].arg))
    /\ frame' = [frame EXCEPT !.ret = r]
    /\ cwd' = RestoredCwd(frame)
    /\ pc' = "yaml"
    /\ UNCHANGED <<cmd, exit, msg, log, ncmds>>

\* the hook raises: the exception leaves the pushd block and the command
HookRaise ==
    /\ pc = "hook"
    /\ cwd' = RestoredCwd(frame)
    /\ pc' = "idle"
    /\ exit' = 1
    /\ msg' = "exception"
    /\ UNCHANGED <<fs, cmd, log, frame, ncmds>>

\* component_data without the `or {}` fallback
component_data_raw(fr) == YamlFile(fr.key, fr.ret)

component_data(fr) ==
    YamlFile(fr.key, IF Truthy(fr.ret) THEN fr.ret ELSE "empty")

WriteYaml ==
    /\ pc = "yaml"
    /\ fs' = WriteFile(fs, Join(frame.root, "component.yaml"), component_data(frame))
    /\ log' = Append(log, Event("yaml.dump", Join(frame.root, "component.yaml"), ""))
    /\ pc' = "idle"
    /\ exit' = 0
    /\ UNCHANGED <<cwd, cmd, msg, frame, ncmds>>

(* ---------------------------------------------------------------------- *)
(* Commands (cli/generate.py)                                             *)
(* ---------------------------------------------------------------------- *)

\* a command is a fresh process started in directory wd (cmd.cwd)
Begin(wd, c) ==
    /\ pc = "idle"
    /\ ncmds < MaxCmds
    /\ wd \in CwdSet
    /\ IsDir(fs, wd)
    /\ ncmds' = ncmds + 1
    /\ cmd' = c

\* click.echo of a red message followed by sys.exit(1), or an exception
\* that ends the process
Abort(code, m, l) ==
    /\ exit' = code
    /\ msg' = m
    /\ log' = l
    /\ pc' = "idle"
    /\ frame' = NoFrame
    /\ fs' = fs
    /\ cwd' = cmd'.cwd

Done(f, l) ==
    /\ exit' = 0
    /\ msg' = ""
    /\ log' = l
    /\ pc' = "idle"
    /\ frame' = NoFrame
    /\ fs' = f
    /\ cwd' = cmd'.cwd

Command(name, wd, a1, a2, json, extra) ==
    [name |-> name, cwd |-> wd, a1 |-> a1, a2 |-> a2, json |-> json, extra |-> extra]

Ok == "ok"

\* DeploymentCheck with os.path.isdir in place of os.path.exists
DeploymentCheck_isdir(f, wd, path) ==
    IF IsDir(f, Join(wd, path)) THEN "path exists" ELSE "ok"

\* lines 33-39: the destination must not exist
DeploymentCheck(f, wd, path) ==
    LET dir_abspath == Join(wd, path)
    IN IF Exists(f, dir_abspath) THEN "path exists" ELSE Ok

generate_deployment_command(wd, path) ==
    LET dir_abspath == Join(wd, path)
        check == DeploymentCheck(fs, wd, path)
    IN /\ Begin(wd, Command("deployment", wd, path, "", NoJson, <<>>))
       /\ IF check # Ok
          THEN Abort(1, check, <<>>)
          ELSE Done(generate_deployment(fs, wd, path),
                    <<Event("generate_deployment", dir_abspath, path)>>)

\* CodeLocationCheck looking for the name under the deployment root instead
\* of the code-location root
CodeLocationCheck_wrongroot(f, wd, name) ==
    IF ~is_inside_deployment_project(f, wd)
    THEN "not in deployment project"
    ELSE LET context == DeploymentProjectContext(f, wd)
         IN IF Exists(f, Join(context.root_path, name))
            THEN "code location exists"
            ELSE "ok"

\* lines 47-56
CodeLocationCheck(f, wd, name) ==
    IF ~is_inside_deployment_project(f, wd)
    THEN "not in deployment project"
    ELSE LET context == DeploymentProjectContext(f, wd)
         IN IF has_code_location(f, context, name)
            THEN "code location exists"
            ELSE Ok

generate_code_location_command(wd, name) ==
    LET check == CodeLocationCheck(fs, wd, name)
    IN /\ Begin(wd, Command("code-location", wd, name, "", NoJson, <<>>))
       /\ IF check # Ok
          THEN Abort(1, check, <<>>)
          ELSE LET context == DeploymentProjectContext(fs, wd)
                   code_location_path == Join(context.code_location_root_path, name)
               IN Done(generate_code_location(fs, code_location_path),
                       <<Event("generate_code_location", code_location_path, name)>>)

\* ComponentTypeCheck asking for a component instance of that name
ComponentTypeCheck_instance(f, wd, name) ==
    IF ~is_inside_code_location_project(f, wd)
    THEN "not in code location project"
    ELSE LET context == CodeLocationProjectContext(f, wd)
         IN IF has_component_instance(f, context, name)
            THEN "component type exists"
            ELSE "ok"

\* lines 66-79
ComponentTypeCheck(f, wd, name) ==
    IF ~is_inside_code_location_project(f, wd)
    THEN "not in code location project"
    ELSE LET context == CodeLocationProjectContext(f, wd)
         IN IF has_component_type(context, name)
            THEN "component type exists"
            ELSE Ok

generate_component_type_command(wd, name) ==
    LET check == ComponentTypeCheck(fs, wd, name)
    IN /\ Begin(wd, Command("component-type", wd, name, "", NoJson, <<>>))
       /\ IF check # Ok
          THEN Abort(1, check, <<>>)
          ELSE LET context == CodeLocationProjectContext(fs, wd)
               IN Done(generate_component_type(fs, context.component_types_root_path,
                                               name),
                       <<Event("generate_component_type",
                               context.component_types_root_path, name)>>)

\* ComponentCheck with the instance test ahead of the type test
ComponentCheck_swapped(f, wd, component_type, component_name) ==
    IF ~is_inside_code_location_project(f, wd)
    THEN "not in code location project"
    ELSE LET context == CodeLocationProjectContext(f, wd)
         IN IF has_component_instance(f, context, component_name)
            THEN "component instance exists"
            ELSE IF ~has_component_type(context, component_type)
            THEN "no component type"
            ELSE "ok"

\* lines 95-115
ComponentCheck(f, wd, component_type, component_name) ==
    IF ~is_inside_code_location_project(f, wd)
    THEN "not in code location project"
    ELSE LET context == CodeLocationProjectContext(f, wd)
         IN IF ~has_component_type(context, component_type)
            THEN "no component type"
            ELSE IF has_component_instance(f, context, component_name)
            THEN "component instance exists"
            ELSE Ok

generate_component_command(wd, component_type, component_name, json_params, extra_args) ==
    LET check == ComponentCheck(fs, wd, component_type, component_name)
    IN /\ Begin(wd, Command("component", wd, component_type, component_name,
                            json_params, extra_args))
       /\ IF check # Ok
          THEN Abort(1, check, <<>>)
          ELSE LET context == CodeLocationProjectContext(fs, wd)
                   component_type_cls == get_component_type(context, component_type)
                   res == ResolveGenerateParams(component_type_cls, json_params,
                                                extra_args)
                   prelog == IF res.via = "json"
                             THEN <<Event("validate_json", <<>>, json_params)>>
                             ELSE IF res.via = "cli"
                             THEN <<Event("parse_args", <<>>, "")>>
                             ELSE <<>>
               IN IF res.params = Err
                  THEN Abort(IF res.via = "cli" THEN 2 ELSE 1, "invalid params", prelog)
                  ELSE generate_component_instance(
                           context.component_instances_root_path, component_name,
                           component_type_cls, res.params, prelog)

(* ---------------------------------------------------------------------- *)
(* Specification                                                          *)
(* ---------------------------------------------------------------------- *)

FS0 == [q \in {<<>>} |-> Dir]

FSDep ==
    generate_code_location(generate_deployment(FS0, <<>>, "dep"),
                           <<"dep", "code_locations", "a">>)

\* a code location whose component-types directory holds a hand-written
\* module t1.py, next to a plain file x at the top
FSUser ==
    WriteFile(WriteFile(FSDep, <<"dep", "code_locations", "a", "lib", "t1.py">>, UserFile),
              <<"x">>, UserFile)

InitFS == {FS0, FSUser}

Init ==
    /\ fs \in InitFS
    /\ cwd = <<>>
    /\ pc = "idle"
    /\ cmd = Command("none", <<>>, "", "", NoJson, <<>>)
    /\ exit = 0
    /\ msg = ""
    /\ log = <<>>
    /\ frame = NoFrame
    /\ ncmds = 0

Next ==
    \/ \E wd \in CwdSet, path \in DeployNames : generate_deployment_command(wd, path)
    \/ \E wd \in CwdSet, name \in CodeLocNames : generate_code_location_command(wd, name)
    \/ \E wd \in CwdSet, name \in TypeNames : generate_component_type_command(wd, name)
    \/ \E wd \in CwdSet, t \in TypeNames, n \in InstNames,
          j \in JsonInputs, x \in ExtraArgInputs :
            generate_component_command(wd, t, n, j, x)
    \/ \E r \in HookReturns : HookReturn(r)
    \/ HookRaise
    \/ WriteYaml

Spec == Init /\ [][Next]_vars

TypeOK ==
    /\ pc \in {"idle", "hook", "yaml"}
    /\ exit \in {-1, 0, 1, 2}
    /\ ncmds \in 0..MaxCmds
    /\ \A p \in DOMAIN fs : p = <<>> \/ IsDir(fs, SubSeq(p, 1, Len(p) - 1))

(* ---------------------------------------------------------------------- *)
(* Properties                                                             *)
(* ---------------------------------------------------------------------- *)

\* the step is the start of a command named n
Starts(n) == ncmds' = ncmds + 1 /\ cmd'.name = n

\* the step ends the command with exit code 1, calls no generator and
\* leaves the filesystem as it was
Rejected == exit' = 1 /\ pc' = "idle" /\ log' = <<>> /\ fs' = fs

\* C1: `generate deployment <path>` on a path that exists (file or
\* directory) exits 1, never calls generate_deployment and leaves the
\* filesystem unchanged.
C1_ExistingPathRejected ==
    [][ (Starts("deployment") /\ Exists(fs, Join(cmd'.cwd, cmd'.a1))) => Rejected ]_vars

\* a deployment command was refused for a destination that is a plain file
C1_Witness ==
    /\ cmd.name = "deployment"
    /\ exit = 1
    /\ Exists(fs, Join(cmd.cwd, cmd.a1))
    /\ fs[Join(cmd.cwd, cmd.a1)] = UserFile

\* C2: `generate code-location <name>` exits 1 with no filesystem change
\* when the working directory is outside every deployment project or when
\* <name> is present under the code-location root; otherwise it calls
\* generate_code_location once, on code_location_root_path/<name>.
C2_CodeLocationPreconditions ==
    [][ Starts("code-location") =>
          LET wd == cmd'.cwd
              name == cmd'.a1
              root == DeploymentProjectContext(fs, wd).code_location_root_path
          IN IF ~is_inside_deployment_project(fs, wd) \/ Exists(fs, Join(root, name))
             THEN Rejected
             ELSE /\ log' = <<Event("generate_code_location", Join(root, name), name)>>
                  /\ IsDir(fs', Join(root, name)) ]_vars

\* code location b, which only an earlier `generate code-location b` can
\* have made, is refused the second time
C2_Witness ==
    /\ cmd.name = "code-location"
    /\ cmd.a1 = "b"
    /\ exit = 1
    /\ msg = "code location exists"
    /\ ncmds = 2

\* C3: `generate component` exits 1 before any filesystem change and before
\* generate_component_instance when the working directory is outside every
\* code-location project, the type is not registered or the instance name
\* is taken; the tests run in that order, so an unregistered type is the
\* one reported when the instance name is taken too.
C3_ComponentPreconditions ==
    [][ Starts("component") =>
          LET wd == cmd'.cwd
              inside == is_inside_code_location_project(fs, wd)
              context == CodeLocationProjectContext(fs, wd)
              known == cmd'.a1 \in context.registry
              taken == Exists(fs, Join(context.component_instances_root_path, cmd'.a2))
          IN /\ ~inside => Rejected /\ msg' = "not in code location project"
             /\ (inside /\ ~known) => Rejected /\ msg' = "no component type"
             /\ (inside /\ known /\ taken) =>
                    Rejected /\ msg' = "component instance exists" ]_vars

\* an unregistered type is reported although the instance name is taken
C3_Witness ==
    /\ cmd.name = "component"
    /\ exit = 1
    /\ msg = "no component type"
    /\ is_inside_code_location_project(fs, cmd.cwd)
    /\ Exists(fs, Join(CodeLocationProjectContext(fs, cmd.cwd).component_instances_root_path,
                       cmd.a2))

\* C4: `generate component-type <name>` exits 1 and creates nothing when
\* the working directory is outside every code-location project or a
\* component type <name> exists; otherwise it calls generate_component_type
\* exactly once and exits 0.
C4_ComponentTypePreconditions ==
    [][ Starts("component-type") =>
          LET wd == cmd'.cwd
              name == cmd'.a1
              context == CodeLocationProjectContext(fs, wd)
          IN IF ~is_inside_code_location_project(fs, wd) \/ name \in context.registry
             THEN Rejected
             ELSE /\ log' = <<Event("generate_component_type",
                                    context.component_types_root_path, name)>>
                  /\ exit' = 0
                  /\ pc' = "idle" ]_vars

\* a component type generated by an earlier command is refused
C4_Witness ==
    /\ cmd.name = "component-type"
    /\ cmd.a1 \notin BuiltinTypes
    /\ exit = 1
    /\ msg = "component type exists"

\* the component.yaml of the instance the last command named
InstanceYaml ==
    Join(Join(CodeLocationProjectContext(fs, cmd.cwd).component_instances_root_path,
              cmd.a2),
         "component.yaml")

\* the last command was `generate component` with --json-params for a type
\* that declares a schema, and it exited 0
JsonComponentDone ==
    /\ pc = "idle"
    /\ cmd.name = "component"
    /\ exit = 0
    /\ cmd.json # NoJson
    /\ generate_params_schema(cmd.a1) # "none"

\* C5: after `generate component <type> <name> --json-params <json>` with
\* a JSON text that satisfies the type's schema, component.yaml has `type`
\* equal to the registry key and `params` equal to the parsed JSON.
C5_ParamsEqualParsedJson ==
    JsonComponentDone =>
        /\ Exists(fs, InstanceYaml)
        /\ fs[InstanceYaml] = YamlFile(cmd.a1, ParseJson(cmd.json))

\* C5 as amended: `type` is the registry key and `params` is the value the
\* generate_files hook returned (an empty mapping when that value is
\* falsy); the hook received the validated JSON value (no argument when
\* that value is falsy).
C5_ParamsFromHook ==
    JsonComponentDone =>
        /\ Exists(fs, InstanceYaml)
        /\ fs[InstanceYaml] =
              YamlFile(cmd.a1, IF frame.ret \in {"None", "empty"} THEN "empty" ELSE frame.ret)
        /\ \E i \in DOMAIN log :
              /\ log[i].op = "generate_files"
              /\ log[i].arg = IF ParseJson(cmd.json) \in {"None", "empty"}
                              THEN "<noarg>"
                              ELSE ParseJson(cmd.json)

\* the hook was given the parsed JSON and returned something else, which is
\* what component.yaml holds
C5_Witness ==
    /\ JsonComponentDone
    /\ ParseJson(cmd.json) = "v1"
    /\ frame.ret = "v2"
    /\ fs[InstanceYaml] = YamlFile(cmd.a1, "v2")

\* C6: when --json-params is malformed or violates the schema the type
\* declares, `generate component` exits nonzero before
\* generate_component_instance is called: no instance directory and no
\* component.yaml are created.
C6_InvalidJsonRejected ==
    [][ ( /\ Starts("component")
          /\ cmd'.json # NoJson
          /\ generate_params_schema(cmd'.a1) # "none"
          /\ validate_json(generate_params_schema(cmd'.a1), cmd'.json) = Err )
        => /\ exit' \in {1, 2}
           /\ pc' = "idle"
           /\ fs' = fs
           /\ \A i \in DOMAIN log' : log'[i].op = "validate_json" ]_vars

\* a command that passed the three precondition tests was stopped by the
\* validation of a well-formed JSON text that violates the schema
C6_Witness ==
    /\ cmd.name = "component"
    /\ pc = "idle"
    /\ exit = 1
    /\ msg = "invalid params"
    /\ ParseJson(cmd.json) = "vx"
    /\ log = <<Event("validate_json", <<>>, cmd.json)>>
    /\ ~Exists(fs, Join(CodeLocationProjectContext(fs, cmd.cwd).component_instances_root_path,
                        cmd.a2))

\* C7: no command of the four overwrites anything: every path that exists
\* before a step of a command exists after it with the same contents.
C7_NeverOverwrites ==
    [][ \A p \in DOMAIN fs : Exists(fs', p) /\ fs'[p] = fs[p] ]_vars

\* C8: the working directory is the new instance directory exactly while
\* the generate_files hook runs, and is the directory the command was
\* started in at every other time, whether the hook returned or raised.
C8_CwdScoped ==
    /\ pc = "hook" =>
         cwd = Join(CodeLocationProjectContext(fs, cmd.cwd).component_instances_root_path,
                    cmd.a2)
    /\ pc # "hook" => cwd = cmd.cwd

\* the hook raised and the working directory is back where the command
\* started, outside the instance directory that was made
C8_Witness ==
    /\ cmd.name = "component"
    /\ pc = "idle"
    /\ msg = "exception"
    /\ IsDir(fs, frame.root)
    /\ cwd = cmd.cwd
    /\ cwd # frame.root

\* the command passes the three precondition tests of `generate component`
PassesComponentChecks(f, c) ==
    /\ is_inside_code_location_project(f, c.cwd)
    /\ c.a1 \in CodeLocationProjectContext(f, c.cwd).registry
    /\ ~Exists(f, Join(CodeLocationProjectContext(f, c.cwd).component_instances_root_path,
                       c.a2))

LogOps(l) == { l[i].op : i \in DOMAIN l }

\* C9: the generate params follow a fixed precedence: None without a
\* schema; else the validated JSON when --json-params is given, the extra
\* arguments not being parsed; else what the schema's cli parser makes of
\* the extra arguments; else None.  generate_files receives the params only
\* when they are truthy.
C9_ParamsPrecedence ==
    [][ (Starts("component") /\ PassesComponentChecks(fs, cmd')) =>
          LET schema == generate_params_schema(cmd'.a1)
              j == cmd'.json
              x == cmd'.extra
              ops == LogOps(log')
          IN /\ schema = "none" =>
                   /\ pc' = "hook" /\ frame'.params = "None"
                   /\ "validate_json" \notin ops /\ "parse_args" \notin ops
             /\ (schema # "none" /\ j # NoJson) =>
                   /\ "validate_json" \in ops /\ "parse_args" \notin ops
                   /\ IF validate_json(schema, j) = Err
                      THEN pc' = "idle" /\ exit' = 1
                      ELSE pc' = "hook" /\ frame'.params = validate_json(schema, j)
             /\ (schema = "model_cli" /\ j = NoJson) =>
                   /\ "validate_json" \notin ops /\ "parse_args" \in ops
                   /\ IF ParseCli(x) = Err
                      THEN pc' = "idle" /\ exit' = 2
                      ELSE pc' = "hook" /\ frame'.params = ParseCli(x)
             /\ (schema \in {"model", "dict"} /\ j = NoJson) =>
                   /\ pc' = "hook" /\ frame'.params = "None"
                   /\ "validate_json" \notin ops /\ "parse_args" \notin ops
             /\ pc' = "hook" =>
                   log'[Len(log')] =
                       Event("generate_files", frame'.root,
                             IF frame'.params \in {"None", "empty"}
                             THEN "<noarg>" ELSE frame'.params) ]_vars

\* --json-params and extra arguments that the cli parser rejects are both
\* given to a type whose schema has a cli parser: the JSON is used and the
\* extra arguments are never parsed
C9_Witness ==
    /\ cmd.name = "component"
    /\ pc = "hook"
    /\ generate_params_schema(cmd.a1) = "model_cli"
    /\ cmd.json # NoJson
    /\ ParseCli(cmd.extra) = Err
    /\ frame.params = "v1"
    /\ "parse_args" \notin LogOps(log)

ComponentYaml(root) == Join(root, "component.yaml")

\* C10: generate_component_instance copies the template, then calls the
\* hook, then writes component.yaml, and only once the hook has returned;
\* when the hook raises the command fails, the copied instance directory
\* stays without a component.yaml, and a later `generate component` of the
\* same name is refused as already existing.
C10_StepOrder ==
    [][ /\ pc' = "hook" =>
              /\ IsDir(fs', frame'.root)
              /\ ~Exists(fs', ComponentYaml(frame'.root))
        /\ pc' = "yaml" => pc = "hook"
        /\ (\E p \in DOMAIN fs' : /\ Len(p) > 0
                                  /\ p[Len(p)] = "component.yaml"
                                  /\ (~Exists(fs, p) \/ fs[p] # fs'[p]))
              => pc = "yaml" /\ "generate_files" \in LogOps(log)
        /\ (pc = "hook" /\ pc' = "idle") =>
              /\ exit' = 1
              /\ IsDir(fs', frame.root)
              /\ ~Exists(fs', ComponentYaml(frame.root))
        /\ ( /\ Starts("component")
             /\ is_inside_code_location_project(fs, cmd'.cwd)
             /\ cmd'.a1 \in CodeLocationProjectContext(fs, cmd'.cwd).registry
             /\ LET root == Join(CodeLocationProjectContext(fs, cmd'.cwd)
                                      .component_instances_root_path, cmd'.a2)
                IN IsDir(fs, root) /\ ~Exists(fs, ComponentYaml(root)) )
              => Rejected /\ msg' = "component instance exists" ]_vars

\* a component command is refused because of the directory that an earlier
\* command, whose hook raised, left behind without a component.yaml
C10_Witness ==
    /\ cmd.name = "component"
    /\ pc = "idle"
    /\ exit = 1
    /\ msg = "component instance exists"
    /\ LET root == Join(CodeLocationProjectContext(fs, cmd.cwd).component_instances_root_path,
                        cmd.a2)
       IN IsDir(fs, root) /\ ~Exists(fs, ComponentYaml(root))

====
